---- MODULE Spec2Model ----
(***************************************************************************)
(* A model of the realtime voice session of src/App.tsx: the session       *)
(* lifecycle (startSession / cleanupSession / channel callbacks), the      *)
(* inbound message handler (tool calls, transcript turns, audio output     *)
(* scheduling, interruption) and the browser objects it drives.            *)
(*                                                                         *)
(* The handler `onmessage` and `startSession` are async functions: each    *)
(* `await` is a suspension point, so one action models the code that runs  *)
(* between two suspension points (one event-loop task).                    *)
(***************************************************************************)
EXTENDS Naturals, Integers, Sequences, FiniteSets

\* ---------------------------------------------------------------- bounds
LifeSessions == 3     \* startSession invocations in a run of SpecLife
MaxMsgs == 2          \* inbound messages delivered in a run
MaxClock == 2         \* ticks of an output context's clock
MaxHistMsgs == 2      \* inbound messages delivered in a run of SpecHist
MaxCalls == 2         \* function calls delivered in a run of SpecTool
TurnSessions == 2     \* startSession invocations in a run of SpecTurns

\* ------------------------------------------------------ program constants
TranscriptCap == 30

Sessions == 1..LifeSessions

\* error messages (setError): none, the startSession catch, the onerror callback
ErrNone == "null"
ErrStart == "unreachable"
ErrChannel == "interrupted-story"

VARIABLES
  \* React state (useState)
  isActive, isConnecting, transcripts, error, generatedImage, isGeneratingImage,
  \* refs (useRef); 0 stands for null
  audioContextInRef, audioContextOutRef, nextStartTimeRef, sourcesRef,
  sessionRef, streamRef, transcriptBufferRef,
  \* startSession invocations and the browser / channel objects they create
  pc,          \* invocation k -> position of startSession
  chan,        \* channel k -> "none" | "connecting" | "open" | "closing" | "closed" | "failed"
  streamLive,  \* set of microphone streams whose tracks are live
  ctxInLive,   \* set of input AudioContexts that are not closed
  ctxOutLive,  \* set of output AudioContexts that are not closed
  clock,       \* output AudioContext k -> currentTime
  nodes,       \* every AudioBufferSourceNode started so far, in start order
  inflight,    \* suspended onmessage invocations
  msgs,        \* the inbound messages delivered so far, in arrival order
  sent,        \* toolResponses sent, in order
  imageCalls,  \* collaborator invocations, in order
  \* history
  last,        \* what the handler or callback that ran last did
  sinceStart,  \* the cursor was reset (interruption or teardown) since the last start
  finalized,   \* every transcript entry finalized so far, newest first
  stopRun      \* consecutive teardown runs with nothing in between (capped)

reactVars == <<isActive, isConnecting, transcripts, error, generatedImage, isGeneratingImage>>
refVars == <<audioContextInRef, audioContextOutRef, nextStartTimeRef, sourcesRef,
             sessionRef, streamRef, transcriptBufferRef>>
envVars == <<pc, chan, streamLive, ctxInLive, ctxOutLive, clock, nodes, inflight,
             msgs, sent, imageCalls>>
histVars == <<last, sinceStart, finalized, stopRun>>
vars == <<reactVars, refVars, envVars, histVars>>

EmptyBuffer == [user |-> <<>>, model |-> <<>>]

Init ==
  /\ isActive = FALSE
  /\ isConnecting = FALSE
  /\ transcripts = <<>>
  /\ error = ErrNone
  /\ generatedImage = 0
  /\ isGeneratingImage = FALSE
  /\ audioContextInRef = 0
  /\ audioContextOutRef = 0
  /\ nextStartTimeRef = 0
  /\ sourcesRef = {}
  /\ sessionRef = 0
  /\ streamRef = 0
  /\ transcriptBufferRef = EmptyBuffer
  /\ pc = [k \in Sessions |-> "idle"]
  /\ chan = [k \in Sessions |-> "none"]
  /\ streamLive = {}
  /\ ctxInLive = {}
  /\ ctxOutLive = {}
  /\ clock = [k \in Sessions |-> 0]
  /\ nodes = <<>>
  /\ inflight = {}
  /\ msgs = <<>>
  /\ sent = <<>>
  /\ imageCalls = <<>>
  /\ last = "init"
  /\ sinceStart = TRUE
  /\ finalized = <<>>
  /\ stopRun = 0

\* ---------------------------------------------------------------- helpers
Max(a, b) == IF a >= b THEN a ELSE b
Min(a, b) == IF a <= b THEN a ELSE b
Compare(a, b) == IF a < b THEN "past" ELSE IF a = b THEN "now" ELSE "future"

\* Array.prototype.slice(0, n)
Take(s, n) == SubSeq(s, 1, Min(Len(s), n))

\* String.prototype.trim on a text held as a sequence of characters
RECURSIVE TrimStart(_)
TrimStart(t) == IF t # <<>> /\ Head(t) = " " THEN TrimStart(Tail(t)) ELSE t
RECURSIVE TrimEnd(_)
TrimEnd(t) ==
  IF t # <<>> /\ t[Len(t)] = " " THEN TrimEnd(SubSeq(t, 1, Len(t) - 1)) ELSE t
Trim(t) == TrimEnd(TrimStart(t))

\* ------------------------------------------------------- inbound messages
NoText == <<>>        \* the field is absent from the message
Fragments == {<<" ">>, <<"a">>, <<"b">>}
\* the audio field: absent, a chunk that does not decode, or a chunk that
\* decodes to a buffer of one or of two clock units
Chunks == {"short", "long"}
Duration(a) == IF a = "short" THEN 1 ELSE 2
\* the toolCall field: the names of its function calls, in order
NoCalls == <<>>       \* the field is absent from the message
Msg(tool, inT, outT, tc, audio, intr) ==
  [tool |-> tool, inT |-> inT, outT |-> outT, tc |-> tc, audio |-> audio, intr |-> intr]

\* messages that carry transcript fields only
TextMessages ==
  {Msg(NoCalls, i, o, t, "none", FALSE) :
     i \in Fragments \cup {NoText}, o \in Fragments \cup {NoText}, t \in BOOLEAN}
  \ {Msg(NoCalls, NoText, NoText, FALSE, "none", FALSE)}

\* messages that carry a toolCall: one call, two calls, and a call of another
\* name before one of generateImage
ToolMessages ==
  {Msg(c, NoText, NoText, FALSE, "none", FALSE) :
     c \in {<<"generateImage">>, <<"generateImage", "generateImage">>,
            <<"other", "generateImage">>}}

\* the messages of a session that uses the tool: tool calls, and one message
\* each with a finished turn, an audio chunk and an interruption signal
Messages ==
  ToolMessages \cup
  {Msg(NoCalls, <<"a">>, NoText, TRUE, "none", FALSE),
   Msg(NoCalls, NoText, NoText, FALSE, "short", FALSE),
   Msg(NoCalls, NoText, NoText, FALSE, "none", TRUE)}

\* messages that carry an audio chunk, an interruption signal, or both
AudioMessages ==
  {Msg(NoCalls, NoText, NoText, FALSE, a, i) :
     a \in Chunks \cup {"none", "bad"}, i \in BOOLEAN}
  \ {Msg(NoCalls, NoText, NoText, FALSE, "none", FALSE)}

\* ------------------------------------------------------------- teardown
\* session.close() on the channel the ref holds
CloseChannel(ch, s) ==
  IF s # 0 /\ ch[s] = "open" THEN [ch EXCEPT ![s] = "closing"] ELSE ch

\* faulty variant: only one member of the active set is stopped
StopOne(ns, set) ==
  [i \in DOMAIN ns |->
     IF i \in set /\ ns[i].state = "playing" /\ \A j \in set : j >= i
     THEN [ns[i] EXCEPT !.state = "stopped"] ELSE ns[i]]

\* faulty variant: the active set is cleared without a stop
StopNone(ns, set) == ns

\* source.stop() on every member of the active set
StopAll(ns, set) ==
  [i \in DOMAIN ns |->
     IF i \in set /\ ns[i].state = "playing"
     THEN [ns[i] EXCEPT !.state = "stopped"] ELSE ns[i]]

\* a reset of the cursor is noted in every suspended handler
Cut(fl) == {[h EXCEPT !.cut = TRUE] : h \in fl}

\* faulty variant: onerror reports the error and leaves the session as it is
OnErrorNoCleanup(k) ==
  /\ chan[k] \in {"connecting", "open"}
  /\ error' = ErrChannel
  /\ chan' = [chan EXCEPT ![k] = "closing"]
  /\ last' = "OnError"
  /\ stopRun' = 0
  /\ UNCHANGED <<isActive, isConnecting, transcripts, generatedImage, isGeneratingImage,
                 refVars, pc, streamLive, ctxInLive, ctxOutLive, clock, nodes, inflight,
                 msgs, sent, imageCalls, sinceStart, finalized>>

\* faulty variant: every teardown toggles the active flag instead of clearing it
cleanupSessionToggling(ch) ==
  /\ chan' = CloseChannel(ch, sessionRef)
  /\ sessionRef' = 0
  /\ streamLive' = streamLive \ {streamRef}
  /\ streamRef' = 0
  /\ ctxInLive' = ctxInLive \ {audioContextInRef}
  /\ audioContextInRef' = 0
  /\ ctxOutLive' = ctxOutLive \ {audioContextOutRef}
  /\ audioContextOutRef' = 0
  /\ nodes' = StopAll(nodes, sourcesRef)
  /\ sourcesRef' = {}
  /\ nextStartTimeRef' = 0
  /\ isActive' = ~isActive
  /\ isConnecting' = FALSE
  /\ sinceStart' = TRUE
  /\ inflight' = Cut(inflight)
  /\ stopRun' = Min(stopRun + 1, 2)
  /\ UNCHANGED <<transcripts, generatedImage, isGeneratingImage, transcriptBufferRef,
                 pc, clock, msgs, sent, imageCalls, finalized>>

\* cleanupSession, run on the channel states ch
cleanupSession(ch) ==
  /\ chan' = CloseChannel(ch, sessionRef)
  /\ sessionRef' = 0
  /\ streamLive' = streamLive \ {streamRef}
  /\ streamRef' = 0
  /\ ctxInLive' = ctxInLive \ {audioContextInRef}
  /\ audioContextInRef' = 0
  /\ ctxOutLive' = ctxOutLive \ {audioContextOutRef}
  /\ audioContextOutRef' = 0
  /\ nodes' = StopAll(nodes, sourcesRef)
  /\ sourcesRef' = {}
  /\ nextStartTimeRef' = 0
  /\ isActive' = FALSE
  /\ isConnecting' = FALSE
  /\ sinceStart' = TRUE
  /\ inflight' = Cut(inflight)
  /\ stopRun' = Min(stopRun + 1, 2)
  /\ UNCHANGED <<transcripts, generatedImage, isGeneratingImage, transcriptBufferRef,
                 pc, clock, msgs, sent, imageCalls, finalized>>

\* the start/stop toggle while a session is active
Stop ==
  /\ isActive /\ ~isConnecting
  /\ cleanupSession(chan)
  /\ error' = error
  /\ last' = "Stop"

\* the channel's onerror callback
OnError(k) ==
  /\ chan[k] \in {"connecting", "open"}
  /\ error' = ErrChannel
  /\ cleanupSession([chan EXCEPT ![k] = "closing"])
  /\ last' = "OnError"

\* the channel's onclose callback: the server closed the channel, or the close
\* event that follows close() or an error is delivered
OnClose(k) ==
  /\ chan[k] \in {"open", "closing"}
  /\ cleanupSession([chan EXCEPT ![k] = "closed"])
  /\ error' = error
  /\ last' = "OnClose"

\* ------------------------------------------------------------ startSession
\* the toggle while no session is active: startSession up to getUserMedia
StartSession(k, limit) ==
  /\ ~isActive /\ ~isConnecting
  /\ k <= limit
  /\ pc[k] = "idle"
  /\ \A j \in 1..(k - 1) : pc[j] # "idle"
  /\ isConnecting' = TRUE
  /\ error' = ErrNone
  /\ pc' = [pc EXCEPT ![k] = "mic"]
  /\ last' = "StartSession"
  /\ stopRun' = 0
  /\ UNCHANGED <<isActive, transcripts, generatedImage, isGeneratingImage, refVars,
                 chan, streamLive, ctxInLive, ctxOutLive, clock, nodes, inflight,
                 msgs, sent, imageCalls, sinceStart, finalized>>

\* getUserMedia resolves: the stream is kept, both contexts are created
MicGranted(k) ==
  /\ pc[k] = "mic"
  /\ streamRef' = k
  /\ streamLive' = streamLive \cup {k}
  /\ ctxInLive' = ctxInLive \cup {k}
  /\ ctxOutLive' = ctxOutLive \cup {k}
  /\ pc' = [pc EXCEPT ![k] = "resume"]
  /\ last' = "MicGranted"
  /\ stopRun' = 0
  /\ UNCHANGED <<reactVars, audioContextInRef, audioContextOutRef, nextStartTimeRef,
                 sourcesRef, sessionRef, transcriptBufferRef, chan, clock, nodes,
                 inflight, msgs, sent, imageCalls, sinceStart, finalized>>

\* faulty variant: the catch block leaves the connecting flag set
MicDeniedStaysConnecting(k) ==
  /\ pc[k] = "mic"
  /\ error' = ErrStart
  /\ pc' = [pc EXCEPT ![k] = "done"]
  /\ last' = "MicDenied"
  /\ stopRun' = 0
  /\ UNCHANGED <<isActive, isConnecting, transcripts, generatedImage, isGeneratingImage,
                 refVars, chan, streamLive, ctxInLive, ctxOutLive, clock, nodes, inflight,
                 msgs, sent, imageCalls, sinceStart, finalized>>

\* getUserMedia rejects: the catch block
MicDenied(k) ==
  /\ pc[k] = "mic"
  /\ error' = ErrStart
  /\ isConnecting' = FALSE
  /\ pc' = [pc EXCEPT ![k] = "done"]
  /\ last' = "MicDenied"
  /\ stopRun' = 0
  /\ UNCHANGED <<isActive, transcripts, generatedImage, isGeneratingImage, refVars,
                 chan, streamLive, ctxInLive, ctxOutLive, clock, nodes, inflight,
                 msgs, sent, imageCalls, sinceStart, finalized>>

\* both resume() calls resolved: the context refs are set and connect is called
Resumed(k) ==
  /\ pc[k] = "resume"
  /\ audioContextInRef' = k
  /\ audioContextOutRef' = k
  /\ chan' = [chan EXCEPT ![k] = "connecting"]
  /\ pc' = [pc EXCEPT ![k] = "connect"]
  /\ last' = "Resumed"
  /\ stopRun' = 0
  /\ UNCHANGED <<reactVars, nextStartTimeRef, sourcesRef, sessionRef, streamRef,
                 transcriptBufferRef, streamLive, ctxInLive, ctxOutLive, clock, nodes,
                 inflight, msgs, sent, imageCalls, sinceStart, finalized>>

\* the channel opens: the onopen callback, then the connect promise resolves
\* and startSession stores the session
OnOpen(k) ==
  /\ pc[k] = "connect"
  /\ chan[k] = "connecting"
  /\ isConnecting' = FALSE
  /\ isActive' = TRUE
  /\ chan' = [chan EXCEPT ![k] = "open"]
  /\ sessionRef' = k
  /\ pc' = [pc EXCEPT ![k] = "done"]
  /\ last' = "OnOpen"
  /\ stopRun' = 0
  /\ UNCHANGED <<transcripts, error, generatedImage, isGeneratingImage,
                 audioContextInRef, audioContextOutRef, nextStartTimeRef, sourcesRef,
                 streamRef, transcriptBufferRef, streamLive, ctxInLive, ctxOutLive,
                 clock, nodes, inflight, msgs, sent, imageCalls, sinceStart, finalized>>

\* the connect promise rejects: the catch block
ConnectRejected(k) ==
  /\ pc[k] = "connect"
  /\ chan[k] = "connecting"
  /\ chan' = [chan EXCEPT ![k] = "failed"]
  /\ error' = ErrStart
  /\ isConnecting' = FALSE
  /\ pc' = [pc EXCEPT ![k] = "done"]
  /\ last' = "ConnectRejected"
  /\ stopRun' = 0
  /\ UNCHANGED <<isActive, transcripts, generatedImage, isGeneratingImage, refVars,
                 streamLive, ctxInLive, ctxOutLive, clock, nodes, inflight,
                 msgs, sent, imageCalls, sinceStart, finalized>>

\* the output context's clock advances
Tick(k) ==
  /\ k \in ctxOutLive
  /\ clock[k] < MaxClock
  /\ clock' = [clock EXCEPT ![k] = @ + 1]
  /\ UNCHANGED <<reactVars, refVars, pc, chan, streamLive, ctxInLive, ctxOutLive,
                 nodes, inflight, msgs, sent, imageCalls, histVars>>

\* ------------------------------------------------------- onmessage handler
\* faulty variant: the interruption branch leaves the cursor as it is
InterruptionKeepsCursor(m, ns, set, cur, fl, since) ==
  /\ nodes' = IF m.intr THEN StopAll(ns, set) ELSE ns
  /\ sourcesRef' = IF m.intr THEN {} ELSE set
  /\ nextStartTimeRef' = cur
  /\ inflight' = IF m.intr THEN Cut(fl) ELSE fl
  /\ sinceStart' = (m.intr \/ since)
  /\ last' = IF m.intr THEN "Interrupted" ELSE "Handled"

\* lines 243-247: the interruption branch that ends the handler, run on the
\* node list ns, the active set set and the cursor cur the handler has
\* reached; fl are the suspended invocations, since the value of sinceStart
Interruption(m, ns, set, cur, fl, since) ==
  IF m.intr
  THEN /\ nodes' = StopAll(ns, set)
       /\ sourcesRef' = {}
       /\ nextStartTimeRef' = 0
       /\ inflight' = Cut(fl)
       /\ sinceStart' = TRUE
       /\ last' = "Interrupted"
  ELSE /\ nodes' = ns
       /\ sourcesRef' = set
       /\ nextStartTimeRef' = cur
       /\ inflight' = fl
       /\ sinceStart' = since
       /\ last' = "Handled"

\* faulty variant: the buffers are not trimmed
TurnEntriesUntrimmed(buf) ==
  (IF buf.user # <<>> THEN <<[type |-> "user", text |-> buf.user]>> ELSE <<>>)
  \o (IF buf.model # <<>> THEN <<[type |-> "model", text |-> buf.model]>> ELSE <<>>)

\* the entries a turn completion finalizes from the two buffers
TurnEntries(buf) ==
  LET u == Trim(buf.user)
      m == Trim(buf.model)
  IN (IF u # <<>> THEN <<[type |-> "user", text |-> u]>> ELSE <<>>)
     \o (IF m # <<>> THEN <<[type |-> "model", text |-> m]>> ELSE <<>>)

\* faulty variant: the old entries are capped before the new ones are prepended
PrependToCapped(new, prev) == new \o Take(prev, TranscriptCap)

\* the updater passed to setTranscripts
Prepend(new, prev) == Take(new \o prev, TranscriptCap)

\* faulty variant: the cursor is set to the clock's time
ClampToNow(cursor, now) == now

\* outCtx.currentTime is read, the cursor is clamped to it
Clamp(cursor, now) == Max(cursor, now)

\* lines 204-247 of the handler of message id (of channel k), up to its next
\* suspension: transcript fields, then the audio chunk up to the await of the
\* decode, else the interruption branch; fl is the set of suspended
\* invocations without this one
Body(id, k, m, fl) ==
  LET buf == [user |-> transcriptBufferRef.user \o m.inT,
              model |-> transcriptBufferRef.model \o m.outT]
      new == TurnEntries(buf)
  IN /\ transcriptBufferRef' = IF m.tc THEN EmptyBuffer ELSE buf
     /\ transcripts' = IF m.tc /\ new # <<>> THEN Prepend(new, transcripts) ELSE transcripts
     /\ finalized' = IF m.tc THEN new \o finalized ELSE finalized
     /\ IF m.audio # "none" /\ audioContextOutRef # 0
        THEN /\ nextStartTimeRef' = Clamp(nextStartTimeRef, clock[audioContextOutRef])
             /\ inflight' = fl \cup {[id |-> id, k |-> k, m |-> m, at |-> "decode",
                                      outCtx |-> audioContextOutRef,
                                      enq |-> clock[audioContextOutRef],
                                      cut |-> FALSE, call |-> 0, fc |-> 0]}
             /\ last' = "Enqueued"
             /\ UNCHANGED <<nodes, sourcesRef, sinceStart>>
        ELSE Interruption(m, nodes, sourcesRef, nextStartTimeRef, fl, sinceStart)

\* the text handleGenerateImage returns
Confirmation == "confirmation"

\* the function calls the messages of log carry
RECURSIVE CallCount(_)
CallCount(log) == IF log = <<>> THEN 0 ELSE Len(Head(log).tool) + CallCount(Tail(log))

\* faulty variant: the loop ends after the first call of the message
NextCallFirstOnly(calls, from) ==
  IF from = 1 /\ calls # <<>> /\ calls[1] = "generateImage" THEN 1 ELSE 0

\* the for loop over functionCalls: the position of the first call named
\* generateImage at or after position from, 0 when there is none
NextCall(calls, from) ==
  LET S == {i \in from..Len(calls) : calls[i] = "generateImage"}
  IN IF S = {} THEN 0 ELSE CHOOSE i \in S : \A j \in S : i <= j

\* faulty variant: a failed generation is reported in the reply
ToolResponseReportsFailure(k, fc, outcome, ch) ==
  [chan |-> k, id |-> fc, open |-> ch[k] = "open",
   result |-> IF outcome = "fail" THEN "failure" ELSE Confirmation]

\* sendToolResponse on the session of channel k for function call fc, the
\* collaborator having answered outcome; open: the channel can still carry it
ToolResponse(k, fc, outcome, ch) ==
  [chan |-> k, id |-> fc, open |-> ch[k] = "open", result |-> Confirmation]

\* faulty variant: a message that arrives while a collaborator call is pending
\* waits for it
ToolWaiting(id, k, m, from, base, fl, gen, calls) ==
  LET c == NextCall(m.tool, from)
  IN IF \E h \in fl : h.at = "image"
     THEN /\ last' = "Queued"
          /\ isGeneratingImage' = gen
          /\ imageCalls' = calls
          /\ inflight' = fl
          /\ UNCHANGED <<transcripts, finalized, transcriptBufferRef, nodes, sourcesRef,
                         nextStartTimeRef, sinceStart>>
     ELSE IF c # 0
     THEN /\ isGeneratingImage' = TRUE
          /\ imageCalls' = Append(calls, [fc |-> base + c, outcome |-> "pending"])
          /\ inflight' = fl \cup {[id |-> id, k |-> k, m |-> m, at |-> "image",
                                   outCtx |-> 0, enq |-> 0, cut |-> FALSE,
                                   call |-> c, fc |-> base + c]}
          /\ last' = "Suspended"
          /\ UNCHANGED <<transcripts, finalized, transcriptBufferRef, nodes, sourcesRef,
                         nextStartTimeRef, sinceStart>>
     ELSE /\ isGeneratingImage' = gen
          /\ imageCalls' = calls
          /\ Body(id, k, m, fl)

\* lines 191-202 of the handler of message id (of channel k) from the call at
\* position from: up to the await of the next generateImage call, else on to
\* the rest of the handler; base is the number of function calls delivered
\* before this message, gen the generating flag and calls the invocation log
\* the handler has reached
Tool(id, k, m, from, base, fl, gen, calls) ==
  LET c == NextCall(m.tool, from)
  IN IF c # 0
     THEN \* handleGenerateImage up to the await of the collaborator
          /\ isGeneratingImage' = TRUE
          /\ imageCalls' = Append(calls, [fc |-> base + c, outcome |-> "pending"])
          /\ inflight' = fl \cup {[id |-> id, k |-> k, m |-> m, at |-> "image",
                                   outCtx |-> 0, enq |-> 0, cut |-> FALSE,
                                   call |-> c, fc |-> base + c]}
          /\ last' = "Suspended"
          /\ UNCHANGED <<transcripts, finalized, transcriptBufferRef, nodes, sourcesRef,
                         nextStartTimeRef, sinceStart>>
     ELSE /\ isGeneratingImage' = gen
          /\ imageCalls' = calls
          /\ Body(id, k, m, fl)

\* channel k, which has opened and has not delivered its close event yet,
\* delivers a message: the handler runs up to its first suspension
OnMessage(k, m, limit) ==
  /\ chan[k] \in {"open", "closing"}
  /\ pc[k] = "done"
  /\ Len(msgs) < limit
  /\ msgs' = Append(msgs, m)
  /\ stopRun' = 0
  /\ Tool(Len(msgs) + 1, k, m, 1, CallCount(msgs), inflight, isGeneratingImage, imageCalls)
  /\ UNCHANGED <<isActive, isConnecting, error, generatedImage, audioContextInRef,
                 audioContextOutRef, sessionRef, streamRef, pc, chan, streamLive,
                 ctxInLive, ctxOutLive, clock, sent>>

\* what the image collaborator may answer: a response with an image part, a
\* response without one, a failure
ImageOutcomes == {"image", "empty", "fail"}

\* the invocation log with the answer to function call fc noted
Answered(calls, fc, outcome) ==
  [i \in DOMAIN calls |->
     IF calls[i].fc = fc THEN [calls[i] EXCEPT !.outcome = outcome] ELSE calls[i]]

\* the collaborator answers: the rest of handleGenerateImage, the tool
\* response, then the handler goes on to its next suspension
ImageDone(h, outcome) ==
  /\ h \in inflight
  /\ h.at = "image"
  /\ generatedImage' = IF outcome = "image" THEN h.fc ELSE generatedImage
  /\ sent' = Append(sent, ToolResponse(h.k, h.fc, outcome, chan))
  /\ Tool(h.id, h.k, h.m, h.call + 1, h.fc - h.call, inflight \ {h}, FALSE,
          Answered(imageCalls, h.fc, outcome))
  /\ stopRun' = 0
  /\ UNCHANGED <<isActive, isConnecting, error, audioContextInRef, audioContextOutRef,
                 sessionRef, streamRef, pc, chan, streamLive, ctxInLive, ctxOutLive,
                 clock, msgs>>

\* decodeAudioData(decode(audioData), ...) resolves for a well-formed chunk
\* and rejects for a malformed one
Decodes(a) == a \in Chunks

\* the decode resolves: the source is created, started at the cursor and added
\* to the active set; then the interruption branch
DecodeDone(h) ==
  /\ h \in inflight
  /\ h.at = "decode"
  /\ Decodes(h.m.audio)
  /\ LET node == [msg |-> h.id, ctx |-> h.outCtx, when |-> nextStartTimeRef,
                  dur |-> Duration(h.m.audio),
                  state |-> IF h.outCtx \in ctxOutLive THEN "playing" ELSE "silent",
                  \* history: the start time against the clock now and at the
                  \* enqueue, and the sinceStart before this start
                  vsNow |-> Compare(nextStartTimeRef, clock[h.outCtx]),
                  early |-> nextStartTimeRef < h.enq,
                  cut |-> h.cut, first |-> sinceStart]
     IN Interruption(h.m, Append(nodes, node), sourcesRef \cup {Len(nodes) + 1},
                     nextStartTimeRef + Duration(h.m.audio), inflight \ {h}, FALSE)
  /\ stopRun' = 0
  /\ UNCHANGED <<reactVars, audioContextInRef, audioContextOutRef, sessionRef, streamRef,
                 transcriptBufferRef, pc, chan, streamLive, ctxInLive, ctxOutLive, clock,
                 msgs, sent, imageCalls, finalized>>

\* faulty variant: a decode that rejects ends the session
DecodeFailedEndsSession(h) ==
  /\ h \in inflight
  /\ h.at = "decode"
  /\ ~Decodes(h.m.audio)
  /\ inflight' = inflight \ {h}
  /\ isActive' = FALSE
  /\ error' = ErrChannel
  /\ last' = "DecodeFailed"
  /\ stopRun' = 0
  /\ UNCHANGED <<isConnecting, transcripts, generatedImage, isGeneratingImage, refVars,
                 pc, chan, streamLive, ctxInLive, ctxOutLive, clock, nodes, msgs, sent,
                 imageCalls, sinceStart, finalized>>

\* the decode rejects: the handler ends there
DecodeFailed(h) ==
  /\ h \in inflight
  /\ h.at = "decode"
  /\ ~Decodes(h.m.audio)
  /\ inflight' = inflight \ {h}
  /\ last' = "DecodeFailed"
  /\ stopRun' = 0
  /\ UNCHANGED <<reactVars, refVars, pc, chan, streamLive, ctxInLive, ctxOutLive, clock,
                 nodes, msgs, sent, imageCalls, sinceStart, finalized>>

\* a source finishes playing: its ended listener
Ended(s) ==
  /\ s \in DOMAIN nodes
  /\ nodes[s].state = "playing"
  /\ nodes[s].ctx \in ctxOutLive
  /\ clock[nodes[s].ctx] >= nodes[s].when + nodes[s].dur
  /\ nodes' = [nodes EXCEPT ![s].state = "ended"]
  /\ sourcesRef' = sourcesRef \ {s}
  /\ last' = "Ended"
  /\ stopRun' = 0
  /\ UNCHANGED <<reactVars, audioContextInRef, audioContextOutRef, nextStartTimeRef,
                 sessionRef, streamRef, transcriptBufferRef, pc, chan, streamLive,
                 ctxInLive, ctxOutLive, clock, inflight, msgs, sent, imageCalls,
                 sinceStart, finalized>>

\* the dismiss button of the image panel
ClearImage ==
  /\ generatedImage # 0
  /\ generatedImage' = 0
  /\ last' = "ClearImage"
  /\ stopRun' = 0
  /\ UNCHANGED <<isActive, isConnecting, transcripts, error, isGeneratingImage, refVars,
                 envVars, sinceStart, finalized>>

LifeNext ==
  \/ \E k \in Sessions : StartSession(k, LifeSessions)
  \/ \E k \in Sessions : MicGranted(k)
  \/ \E k \in Sessions : MicDenied(k)
  \/ \E k \in Sessions : Resumed(k)
  \/ \E k \in Sessions : OnOpen(k)
  \/ \E k \in Sessions : ConnectRejected(k)
  \/ \E k \in Sessions : OnError(k)
  \/ \E k \in Sessions : OnClose(k)
  \/ Stop

SpecLife == Init /\ [][LifeNext]_vars

\* the lifecycle when every request that was made is answered: getUserMedia
\* resolves or rejects, resume() resolves, and the connection attempt opens
\* the channel, is rejected or ends in a channel error
LifeFairness ==
  \A k \in Sessions :
    /\ WF_vars(MicGranted(k) \/ MicDenied(k))
    /\ WF_vars(Resumed(k))
    /\ WF_vars(OnOpen(k) \/ ConnectRejected(k) \/ OnError(k))

SpecLifeFair == Init /\ [][LifeNext]_vars /\ LifeFairness

\* the output scheduler within one session: the session is started once and
\* its channel delivers audio chunks and interruption signals
SchedNext ==
  \/ \E k \in Sessions : StartSession(k, 1)
  \/ \E k \in Sessions : MicGranted(k)
  \/ \E k \in Sessions : MicDenied(k)
  \/ \E k \in Sessions : Resumed(k)
  \/ \E k \in Sessions : OnOpen(k)
  \/ \E k \in Sessions : ConnectRejected(k)
  \/ \E k \in Sessions : OnError(k)
  \/ \E k \in Sessions : OnClose(k)
  \/ Stop
  \/ \E k \in Sessions : Tick(k)
  \/ \E k \in Sessions, m \in AudioMessages : OnMessage(k, m, MaxMsgs)
  \/ \E h \in inflight : DecodeDone(h)
  \/ \E h \in inflight : DecodeFailed(h)
  \/ \E s \in DOMAIN nodes : Ended(s)

SpecSched == Init /\ [][SchedNext]_vars

\* the transcript aggregator within one session: the session is started once
\* and its channel delivers transcript fragments and turn completions
TextNext ==
  \/ \E k \in Sessions : StartSession(k, 1)
  \/ \E k \in Sessions : MicGranted(k)
  \/ \E k \in Sessions : MicDenied(k)
  \/ \E k \in Sessions : Resumed(k)
  \/ \E k \in Sessions : OnOpen(k)
  \/ \E k \in Sessions : ConnectRejected(k)
  \/ \E k \in Sessions : OnError(k)
  \/ \E k \in Sessions : OnClose(k)
  \/ Stop
  \/ \E k \in Sessions, m \in TextMessages : OnMessage(k, m, MaxMsgs)

SpecText == Init /\ [][TextNext]_vars

\* the tool dispatcher within one session: the session is started once and
\* its channel delivers tool calls among other messages
ToolNext ==
  \/ \E k \in Sessions : StartSession(k, 1)
  \/ \E k \in Sessions : MicGranted(k)
  \/ \E k \in Sessions : MicDenied(k)
  \/ \E k \in Sessions : Resumed(k)
  \/ \E k \in Sessions : OnOpen(k)
  \/ \E k \in Sessions : ConnectRejected(k)
  \/ \E k \in Sessions : OnError(k)
  \/ \E k \in Sessions : OnClose(k)
  \/ Stop
  \/ \E k \in Sessions, m \in {x \in Messages : CallCount(msgs) + Len(x.tool) <= MaxCalls} :
       OnMessage(k, m, MaxMsgs)
  \/ \E h \in inflight, o \in ImageOutcomes : ImageDone(h, o)
  \/ \E h \in inflight : DecodeDone(h)
  \/ ClearImage

SpecTool == Init /\ [][ToolNext]_vars

\* messages with one transcript field each: a fragment of the user's speech,
\* a fragment of the model's speech, a turn completion
TurnMessages ==
  {Msg(NoCalls, <<"a">>, NoText, FALSE, "none", FALSE),
   Msg(NoCalls, NoText, <<"b">>, FALSE, "none", FALSE),
   Msg(NoCalls, NoText, NoText, TRUE, "none", FALSE)}

\* the transcript aggregator across sessions: sessions are started one after
\* the other and their channels deliver fragments and turn completions
TurnNext ==
  \/ \E k \in Sessions : StartSession(k, TurnSessions)
  \/ \E k \in Sessions : MicGranted(k)
  \/ \E k \in Sessions : MicDenied(k)
  \/ \E k \in Sessions : Resumed(k)
  \/ \E k \in Sessions : OnOpen(k)
  \/ \E k \in Sessions : ConnectRejected(k)
  \/ \E k \in Sessions : OnError(k)
  \/ \E k \in Sessions : OnClose(k)
  \/ Stop
  \/ \E k \in Sessions, m \in TurnMessages : OnMessage(k, m, MaxMsgs)

SpecTurns == Init /\ [][TurnNext]_vars

\* the text of the n-th entry finalized: n characters
Unary(n) == [j \in 1..n |-> "a"]

\* the transcript after n turns of one entry each, newest first
History(n) ==
  [i \in 1..n |-> [type |-> IF (n - i) % 2 = 0 THEN "user" ELSE "model",
                   text |-> Unary(n - i + 1)]]

\* an active session (started, granted, resumed, opened) in which up to
\* TranscriptCap entries have been finalized
HistInit ==
  /\ isActive = TRUE
  /\ isConnecting = FALSE
  /\ \E n \in 0..TranscriptCap : transcripts = History(n) /\ finalized = History(n)
  /\ error = ErrNone
  /\ generatedImage = 0
  /\ isGeneratingImage = FALSE
  /\ audioContextInRef = 1
  /\ audioContextOutRef = 1
  /\ nextStartTimeRef = 0
  /\ sourcesRef = {}
  /\ sessionRef = 1
  /\ streamRef = 1
  /\ transcriptBufferRef = EmptyBuffer
  /\ pc = [k \in Sessions |-> IF k = 1 THEN "done" ELSE "idle"]
  /\ chan = [k \in Sessions |-> IF k = 1 THEN "open" ELSE "none"]
  /\ streamLive = {1}
  /\ ctxInLive = {1}
  /\ ctxOutLive = {1}
  /\ clock = [k \in Sessions |-> 0]
  /\ nodes = <<>>
  /\ inflight = {}
  /\ msgs = <<>>
  /\ sent = <<>>
  /\ imageCalls = <<>>
  /\ last = "OnOpen"
  /\ sinceStart = TRUE
  /\ stopRun = 0

\* the channel of the active session delivers transcript fragments and turn
\* completions
HistNext == \E m \in TextMessages : OnMessage(1, m, MaxHistMsgs)

SpecHist == HistInit /\ [][HistNext]_vars

\* ------------------------------------------------------------ properties
End(n) == n.when + n.dur

\* node i was started with no reset of the cursor since the start before it
Chained(i) == i > 1 /\ ~nodes[i].first

C2_NeverIntoThePast ==
  \A i \in DOMAIN nodes : nodes[i].vsNow # "past"

TornDown ==
  /\ sessionRef' = 0
  /\ sessionRef # 0 => chan'[sessionRef] \in {"closing", "closed"}
  /\ streamRef' = 0
  /\ streamRef \notin streamLive'
  /\ audioContextInRef' = 0
  /\ audioContextInRef \notin ctxInLive'
  /\ audioContextOutRef' = 0
  /\ audioContextOutRef \notin ctxOutLive'
  /\ \A s \in sourcesRef : nodes'[s].state # "playing"
  /\ sourcesRef' = {}
  /\ nextStartTimeRef' = 0
  /\ ~isActive'
  /\ ~isConnecting'

\* C4: the step that runs stop() closes the channel the session ref held and
\* clears the ref, stops the stream's tracks and clears the stream ref, closes
\* both audio contexts and clears their refs, stops every member of the active
\* set and empties it, zeroes the cursor and leaves the session neither active
\* nor connecting.
C4_StopTearsDown ==
  [][(isActive /\ last' = "Stop") => TornDown]_vars

\* stop() has run on a session whose channel was open and that held two
\* playing sources, with no interruption signal delivered before
C4_Witness ==
  /\ last = "Stop"
  /\ chan[1] = "closing"
  /\ 1 \notin streamLive /\ 1 \notin ctxInLive /\ 1 \notin ctxOutLive
  /\ Len(nodes) = 2
  /\ \A i \in DOMAIN nodes : nodes[i].state = "stopped"
  /\ \A j \in DOMAIN msgs : ~msgs[j].intr

\* C5: a teardown (the toggle's stop or a close event) that runs right after
\* another teardown changes nothing: the React state, the refs, the streams,
\* the contexts and the sources stay as the first one left them and no
\* further channel is closed.
C5_StopIdempotent ==
  [][(stopRun >= 1 /\ last' \in {"Stop", "OnClose"})
       => /\ UNCHANGED <<reactVars, refVars, streamLive, ctxInLive, ctxOutLive, nodes>>
          /\ \A k \in Sessions : chan'[k] = "closing" => chan[k] = "closing"]_vars

\* the close event of the stopped channel has run the teardown a second time,
\* right after the stop that had stopped a source
C5_Witness ==
  /\ stopRun = 2
  /\ last = "OnClose"
  /\ chan[1] = "closed"
  /\ \E i \in DOMAIN nodes : nodes[i].state = "stopped"

\* no resource of any session is held
Released ==
  /\ sessionRef = 0 /\ streamRef = 0
  /\ audioContextInRef = 0 /\ audioContextOutRef = 0
  /\ streamLive = {} /\ ctxInLive = {} /\ ctxOutLive = {}
  /\ \A k \in Sessions : chan[k] \notin {"connecting", "open"}

\* C6: when startSession has failed (getUserMedia rejected, or the connection
\* rejected after the stream and the contexts were acquired) the session is
\* neither active nor connecting, the error message is set and every resource
\* acquired by the attempt is released and its handle cleared.
C6_FailedStartReleases ==
  last \in {"MicDenied", "ConnectRejected"} =>
    /\ ~isActive /\ ~isConnecting
    /\ error = ErrStart
    /\ Released

\* C7: the steps that run the onerror and the onclose callbacks tear down as
\* stop() does; after onerror the error message is the channel error's, the
\* session is neither active nor connecting and the toggle starts a session;
\* the onclose step leaves the error message as it was.
C7_ChannelEventsTearDown ==
  /\ [][(last' \in {"OnError", "OnClose"} /\ stopRun' > 0) => TornDown]_vars
  /\ [][(last' = "OnClose" /\ stopRun' > 0) => error' = error]_vars
  /\ [](last = "OnError" => (error = ErrChannel /\ ~isActive /\ ~isConnecting))

\* onerror has torn down an active session with a playing source
C7_Witness ==
  /\ last = "OnError"
  /\ error = ErrChannel
  /\ chan[1] = "closing"
  /\ 1 \notin streamLive /\ 1 \notin ctxOutLive
  /\ \E i \in DOMAIN nodes : nodes[i].state = "stopped"
  /\ \A j \in DOMAIN msgs : ~msgs[j].intr

\* C8: at most one channel is open or being connected and at most one
\* microphone stream is held.
C8_OneSession ==
  /\ Cardinality({k \in Sessions : chan[k] \in {"connecting", "open"}}) <= 1
  /\ Cardinality(streamLive) <= 1

\* the fragment of role r that message m carries
Fragment(m, r) == IF r = "user" THEN m.inT ELSE m.outT

\* the fragments of role r that arrived since the last turn completion before
\* message j, up to message j, concatenated in arrival order
RECURSIVE Pending(_, _, _)
Pending(log, j, r) ==
  IF j = 0 THEN <<>>
  ELSE (IF j = 1 \/ log[j - 1].tc THEN <<>> ELSE Pending(log, j - 1, r))
       \o Fragment(log[j], r)

\* the entry of role r for the text t, if any
EntryOf(r, t) == IF Trim(t) = <<>> THEN <<>> ELSE <<[type |-> r, text |-> Trim(t)]>>

\* the entries that messages 1..j finalize, newest first
RECURSIVE Finalized(_, _)
Finalized(log, j) ==
  IF j = 0 THEN <<>>
  ELSE (IF log[j].tc
        THEN EntryOf("user", Pending(log, j, "user"))
             \o EntryOf("model", Pending(log, j, "model"))
        ELSE <<>>)
       \o Finalized(log, j - 1)

\* C9: the entries are, newest first, for every turn completion and every
\* role the trimmed concatenation of the role's fragments that arrived since
\* the turn completion before, in arrival order, with no entry for a role
\* whose trimmed text is empty; after a turn completion both buffers are
\* empty, otherwise they hold the fragments that arrived since the last one.
C9_TurnFlush ==
  /\ transcripts = Take(Finalized(msgs, Len(msgs)), TranscriptCap)
  /\ \A r \in {"user", "model"} :
       transcriptBufferRef[r] =
         IF msgs = <<>> \/ msgs[Len(msgs)].tc THEN <<>> ELSE Pending(msgs, Len(msgs), r)

\* two fragments per role, with blanks at the ends, then the turn completion:
\* one trimmed entry per role and empty buffers
C9_Witness ==
  /\ Len(msgs) = 2
  /\ msgs[1] = Msg(NoCalls, <<" ">>, <<"a">>, FALSE, "none", FALSE)
  /\ msgs[2] = Msg(NoCalls, <<"a">>, <<" ">>, TRUE, "none", FALSE)
  /\ transcripts = <<[type |-> "user", text |-> <<"a">>],
                     [type |-> "model", text |-> <<"a">>]>>
  /\ transcriptBufferRef = EmptyBuffer

\* C10: the transcript holds the min(n, 30) entries finalized last of the n
\* finalized so far, newest first and in the order they were finalized.
C10_BoundedHistory ==
  /\ Len(transcripts) = Min(Len(finalized), TranscriptCap)
  /\ \A i \in 1..Len(transcripts) : transcripts[i] = finalized[i]

\* a turn of two entries was prepended to 29 entries: the oldest one is gone
C10_Witness ==
  /\ Len(msgs) = 1
  /\ Len(finalized) = TranscriptCap + 1
  /\ Len(transcripts) = TranscriptCap
  /\ transcripts[1] = finalized[1]
  /\ transcripts[TranscriptCap] = finalized[TranscriptCap]
  /\ finalized[TranscriptCap + 1].text = Unary(1)

\* the function calls of message i, and of the first n messages, in order of
\* arrival: the position in Delivered is the id the server gave the call
CallsOf(i) ==
  [p \in 1..Len(msgs[i].tool) |-> [msg |-> i, pos |-> p, name |-> msgs[i].tool[p]]]
RECURSIVE CallsUpTo(_)
CallsUpTo(n) == IF n = 0 THEN <<>> ELSE CallsUpTo(n - 1) \o CallsOf(n)
Delivered == CallsUpTo(Len(msgs))

Invocations(fc) == {i \in DOMAIN imageCalls : imageCalls[i].fc = fc}
Responses(fc) == {i \in DOMAIN sent : sent[i].id = fc}
Answered1(fc) == \E i \in Invocations(fc) : imageCalls[i].outcome # "pending"

\* the handler of message i has reached the call at position p, has passed it
Reached(i, p) == ~\E h \in inflight : h.id = i /\ h.at = "image" /\ h.call < p
Passed(i, p) == ~\E h \in inflight : h.id = i /\ h.at = "image" /\ h.call <= p

\* every invocation and every response belongs to a delivered generateImage
\* call; a call the handler has reached is invoked once, a call it has passed
\* is answered and has one response; a call it has not reached is not invoked;
\* no response precedes the answer
ExactlyOnce ==
  /\ \A i \in DOMAIN imageCalls : imageCalls[i].fc \in DOMAIN Delivered
  /\ \A i \in DOMAIN sent : sent[i].id \in DOMAIN Delivered
  /\ \A fc \in DOMAIN Delivered :
       LET c == Delivered[fc]
       IN IF c.name = "generateImage"
          THEN /\ Cardinality(Invocations(fc)) = (IF Reached(c.msg, c.pos) THEN 1 ELSE 0)
               /\ Cardinality(Responses(fc)) = (IF Passed(c.msg, c.pos) THEN 1 ELSE 0)
               /\ Answered1(fc) <=> Passed(c.msg, c.pos)
          ELSE Invocations(fc) = {} /\ Responses(fc) = {}

\* a step in which a response is sent: it is one response, for the call that
\* was answered in this step, and an image in the answer is the artifact then
ArtifactStep ==
  sent' # sent =>
    /\ Len(sent') = Len(sent) + 1
    /\ SubSeq(sent', 1, Len(sent)) = sent
    /\ LET fc == sent'[Len(sent')].id
       IN /\ ~Answered1(fc)
          /\ \E i \in DOMAIN imageCalls' :
               /\ imageCalls'[i].fc = fc
               /\ imageCalls'[i].outcome # "pending"
               /\ imageCalls'[i].outcome = "image" => generatedImage' = fc

\* C11: every delivered function call named generateImage is invoked on the
\* collaborator exactly once when the handler reaches it, an image in the
\* answer becomes the current artifact in place of the one before, and
\* exactly one response with the call's id is sent, in the step in which the
\* collaborator answers; calls of another name get neither.
C11_ToolCallOnce == [](ExactlyOnce) /\ [][ArtifactStep]_vars

\* a message with two calls: both were answered with an image and have their
\* responses, in order, on the open channel; the second image is the artifact
C11_Witness ==
  /\ Len(msgs) = 1
  /\ msgs[1].tool = <<"generateImage", "generateImage">>
  /\ Len(imageCalls) = 2
  /\ \A i \in 1..2 : imageCalls[i] = [fc |-> i, outcome |-> "image"]
  /\ Len(sent) = 2
  /\ \A i \in 1..2 : sent[i].id = i /\ sent[i].open
  /\ generatedImage = 2
  /\ inflight = {}

\* the collaborator call for function call fc fails in this step
Fails(fc) ==
  \E i \in DOMAIN imageCalls :
    /\ imageCalls[i].fc = fc
    /\ imageCalls[i].outcome = "pending"
    /\ imageCalls'[i].outcome = "fail"

\* C12: in a step in which a collaborator call fails no teardown runs (the
\* lifecycle flags, the error message, the channels, the stream, the contexts,
\* the active set, the sources and the cursor are as before), the artifact is
\* as before, and one response is sent, with the id of the failed call and the
\* confirmation text that is sent on success.
C12_ToolFailure ==
  [][\A fc \in DOMAIN Delivered :
       Fails(fc) =>
         /\ UNCHANGED <<isActive, isConnecting, error, chan, sessionRef, streamRef,
                        streamLive, ctxInLive, ctxOutLive, audioContextInRef,
                        audioContextOutRef, sourcesRef, nodes, nextStartTimeRef>>
         /\ generatedImage' = generatedImage
         /\ Len(sent') = Len(sent) + 1
         /\ SubSeq(sent', 1, Len(sent)) = sent
         /\ sent'[Len(sent')].id = fc
         /\ sent'[Len(sent')].result = Confirmation
         /\ \A i \in DOMAIN sent : sent[i].result = sent'[Len(sent')].result]_vars

\* the first call left an image, the second call failed while a chunk was
\* playing: the session is active on its open channel, the chunk plays on, the
\* image is the first one and both calls have their response
C12_Witness ==
  /\ Len(imageCalls) = 2
  /\ imageCalls[1].outcome = "image"
  /\ imageCalls[2].outcome = "fail"
  /\ generatedImage = 1
  /\ Len(sent) = 2
  /\ sent[2].id = 2
  /\ sent[2].open
  /\ isActive
  /\ chan[1] = "open"
  /\ \E i \in sourcesRef : nodes[i].state = "playing"
  /\ last = "Handled"

\* the decode of a chunk that does not decode is given up in this step
GivesUp ==
  \E h \in inflight :
    /\ h.at = "decode"
    /\ ~Decodes(h.m.audio)
    /\ inflight' = inflight \ {h}

\* C13: the step in which the decode of a chunk fails changes nothing but the
\* end of that handler: no teardown runs, the session state, the active set,
\* the sources and the cursor are as before; no source is ever started for
\* such a chunk; and in an active session every chunk that decodes, also one
\* that arrived after a chunk that does not, is either being decoded or has
\* been started.
C13_DecodeErrorsSkipped ==
  /\ [][GivesUp =>
          UNCHANGED <<isActive, isConnecting, error, chan, sessionRef, streamRef,
                      streamLive, ctxInLive, ctxOutLive, audioContextInRef,
                      audioContextOutRef, sourcesRef, nodes, nextStartTimeRef>>]_vars
  /\ [](\A i \in DOMAIN nodes : Decodes(msgs[nodes[i].msg].audio))
  /\ [](isActive =>
          \A id \in DOMAIN msgs :
            Decodes(msgs[id].audio) =>
              \/ \E h \in inflight : h.id = id /\ h.at = "decode"
              \/ \E i \in DOMAIN nodes : nodes[i].msg = id)

\* the first message carried a chunk that does not decode and its decode has
\* failed; the chunk of the second message is playing in the active session
C13_Witness ==
  /\ Len(msgs) = 2
  /\ msgs[1].audio = "bad"
  /\ msgs[2].audio = "short"
  /\ inflight = {}
  /\ Len(nodes) = 1
  /\ nodes[1].msg = 2
  /\ nodes[1].state = "playing"
  /\ sourcesRef = {1}
  /\ isActive
  /\ chan[1] = "open"

\* the toggle starts a session whenever none is active or connecting, and a
\* started session can take every step to Active whatever the sessions
\* before it left behind
Restartable ==
  \A k \in Sessions :
    /\ (~isActive /\ ~isConnecting /\ pc[k] = "idle" /\ \A j \in 1..(k - 1) : pc[j] # "idle")
         => ENABLED StartSession(k, LifeSessions)
    /\ pc[k] = "mic" => ENABLED MicGranted(k)
    /\ pc[k] = "resume" => ENABLED Resumed(k)
    /\ (pc[k] = "connect" /\ chan[k] = "connecting") => ENABLED OnOpen(k)

\* C14: when every request is answered, Connecting always ends (in Active, or
\* in neither Active nor Connecting); whenever the session is neither, the
\* toggle starts a new one, and every started session can go on to Active: its
\* opening makes the session Active.
C14_ConnectingEnds ==
  /\ isConnecting ~> ~isConnecting
  /\ [](Restartable)
  /\ [][\A k \in Sessions : (chan[k] = "connecting" /\ chan'[k] = "open") => isActive']_vars

\* the first start ended in a rejected connection, the second one is Active
C14_Witness ==
  /\ chan[1] = "failed"
  /\ error = ErrNone
  /\ isActive /\ ~isConnecting
  /\ sessionRef = 2
  /\ chan[2] = "open"

\* C15 as stated: the handlers do not overlap; a handler that is suspended,
\* its remaining effects not yet applied, is the handler of the message that
\* arrived last.
C15_NoOverlap == \A h \in inflight : h.id = Len(msgs)

\* a collaborator call is pending
ImagePending == \E h \in inflight : h.at = "image"

\* C16: a message that is delivered while a collaborator call is pending is
\* handled in the step of its delivery as far as its own first suspension:
\* its fragments are appended, its turn completion finalizes the entries and
\* empties the buffers, its chunk is enqueued for decoding, its interruption
\* signal stops and clears the active set and zeroes the cursor, its
\* generateImage call is invoked; the pending call stays pending.
C16_ToolDoesNotBlock ==
  [][(ImagePending /\ msgs' # msgs) =>
       LET m == msgs'[Len(msgs')]
           buf == [user |-> transcriptBufferRef.user \o m.inT,
                   model |-> transcriptBufferRef.model \o m.outT]
           enq == m.audio # "none" /\ audioContextOutRef # 0
       IN /\ Len(msgs') = Len(msgs) + 1
          /\ \A h \in inflight : h.at = "image" => \E g \in inflight' : g.id = h.id /\ g.at = "image"
          /\ m.tool = NoCalls =>
               /\ transcriptBufferRef' = IF m.tc THEN EmptyBuffer ELSE buf
               /\ m.tc => finalized' = TurnEntries(buf) \o finalized
               /\ m.tc => transcripts' = Take(TurnEntries(buf) \o transcripts, TranscriptCap)
               /\ enq => \E g \in inflight' : g.id = Len(msgs') /\ g.at = "decode"
               /\ (m.intr /\ ~enq) =>
                    /\ sourcesRef' = {}
                    /\ nextStartTimeRef' = 0
                    /\ \A i \in sourcesRef : nodes'[i].state # "playing"
          /\ NextCall(m.tool, 1) # 0 =>
               /\ Len(imageCalls') = Len(imageCalls) + 1
               /\ imageCalls'[Len(imageCalls')].outcome = "pending"
               /\ \E g \in inflight' : g.id = Len(msgs') /\ g.at = "image"]_vars

\* the collaborator call of the first message is pending and has no response
\* yet; the turn completion of the second message has finalized its entry
C16_Witness ==
  /\ Len(msgs) = 2
  /\ msgs[1].tool = <<"generateImage">>
  /\ msgs[2] = Msg(NoCalls, <<"a">>, NoText, TRUE, "none", FALSE)
  /\ imageCalls = <<[fc |-> 1, outcome |-> "pending"]>>
  /\ sent = <<>>
  /\ transcripts = <<[type |-> "user", text |-> <<"a">>]>>
  /\ transcriptBufferRef = EmptyBuffer
  /\ isActive

\* a step that cancels the playback: an interruption signal is processed, or
\* a teardown runs
Cancels == last' \in {"Interrupted", "Stop", "OnError", "OnClose"} /\ clock' = clock

\* C17: every source that has been started and has neither ended nor been
\* stopped is a member of the active set, also one whose decode was pending
\* when an interruption signal or a teardown was processed; so a step that
\* cancels the playback leaves no source playing.
C17_ActiveSetIsTruth ==
  /\ [](\A i \in DOMAIN nodes : nodes[i].state = "playing" => i \in sourcesRef)
  /\ [][Cancels => \A i \in DOMAIN nodes' : nodes'[i].state # "playing"]_vars

\* an interruption signal was processed while the decode of a chunk was
\* pending; the chunk was started afterwards, is playing and is in the set
C17_Witness ==
  \E i \in DOMAIN nodes :
    /\ nodes[i].cut
    /\ nodes[i].state = "playing"
    /\ i \in sourcesRef
    /\ isActive
    /\ \E j \in DOMAIN msgs : j > nodes[i].msg /\ msgs[j].intr

\* C18 as stated: a message that is delivered while the session is not
\* Active changes neither the turn buffers, the transcript, the active set,
\* the cursor nor the artifact, invokes no collaborator call and sends no
\* response.
C18_DispatchOnlyInActive ==
  [][(msgs' # msgs /\ ~isActive) =>
       UNCHANGED <<transcriptBufferRef, transcripts, sourcesRef, nextStartTimeRef,
                   generatedImage, imageCalls, sent>>]_vars

\* C19 as stated: no chunk is started after an interruption signal or a
\* teardown that was processed after the chunk's message had arrived, and
\* while no chunk has been enqueued since the last such cancellation the
\* active set is empty and the cursor is 0.
C19_CancellationComplete ==
  /\ \A i \in DOMAIN nodes : ~nodes[i].cut
  /\ (\A h \in inflight : h.at = "decode" => h.cut) /\ last \in {"Interrupted", "Stop"}
       => (sourcesRef = {} /\ nextStartTimeRef = 0)

\* channel k delivers its close or error event in this step, after its
\* session was torn down and a later start has begun
LateEvent(k) ==
  /\ chan[k] = "closing"
  /\ chan'[k] = "closed"
  /\ sessionRef # k
  /\ \E j \in Sessions : j > k /\ pc[j] # "idle"

\* C20 as stated: a close or error event of an earlier session that is
\* delivered after its teardown and after a later start has begun leaves the
\* later session's stream, contexts and channel, the lifecycle flags and the
\* error message as they are.
C20_SessionsIsolated ==
  [][\A k \in Sessions :
       LateEvent(k) =>
         /\ UNCHANGED <<streamLive, ctxInLive, ctxOutLive, isActive, isConnecting, error>>
         /\ \A j \in Sessions : j # k => chan'[j] = chan[j]]_vars

\* C21 as stated: when a teardown has run (stop, channel close, channel
\* error) both turn buffers are empty, and so they are when a session opens:
\* the entries a session finalizes hold only fragments it received itself.
C21_BuffersDoNotLeak ==
  last \in {"Stop", "OnError", "OnClose", "OnOpen"} => transcriptBufferRef = EmptyBuffer

====
